---- MODULE Spec2Model ----
(***************************************************************************)
(* bff: a command-line buffer editor (src/src/main.cpp).                   *)
(*                                                                         *)
(* The model follows class BufferManager: the map of resident buffers, the *)
(* snapshot files under /tmp/bff_buffers/, the user files that open/save   *)
(* read and write, and one action per public member function.  A text      *)
(* string is a sequence of one-character strings, a file is the sequence   *)
(* of characters it holds, so that writing lines ("<<" line "<<" "\n") and *)
(* reading them back (getline) are computed and not taken for granted.     *)
(***************************************************************************)
EXTENDS Integers, Sequences, FiniteSets, TLC

VARIABLES
  buffers,        \* BufferManager::buffers : name -> Buffer (resident ones only)
  temp,           \* the files of temp_directory : name -> characters of <name>.tmp
  files,          \* the user files that can be opened : path -> characters
  temp_writable,  \* whether ofstream can open a file of temp_directory
  opened_from,    \* history: the path open_file last loaded each name from
  last,           \* the call that was made last
  ret,            \* what that call returned (TRUE for a void function)
  out,            \* the string get_line returned
  code,           \* what execute_command returns for that call (the exit code)
  printed,        \* the lines that call wrote to cout: [num, text, pad]
  touched,        \* the vector positions that call used: [at, size, insert]
  procs,          \* concurrent invocations on one snapshot (SpecRace only)
  current_buffer  \* BufferManager::current_buffer: the name of the buffer it
                  \* points to, or NullPtr

vars == <<buffers, temp, files, temp_writable, opened_from, last, ret, out, code,
          printed, touched, procs, current_buffer>>

(***************************************************************************)
(* Bounds and input sets                                                   *)
(***************************************************************************)
\* the largest number of newline-delimited records a buffer may serialise to
MaxLines == 3

NL == "\n"

Names == {"t"}

\* line contents given on the command line; the last one embeds a newline
PlainContents == {<<"a">>, <<"b">>, <<"c">>}
Contents == PlainContents \cup {<<"a", NL, "b">>}

\* line numbers given on the command line (stoi accepts any int)
LineNums == -1 .. (MaxLines + 1)
\* get_line is also asked for a line further past the end
GetNums == -1 .. (MaxLines + 2)

\* the inputs of the Buffer Store specification
StoreContents == {<<"c">>, <<"a", NL, "b">>}
StoreLineNums == {0, 1, 2}

A == <<"a">>
B == <<"b">>

\* the inputs of the Printing specification: contents of different lengths
PrintContents == {<<"a">>, <<"b", "c">>}
\* the greatest and the least int of the build
MaxInt == 2147483647
MinInt == -MaxInt - 1
\* a length, or a number of characters, known to lie between two bounds
Between(least, most) == [least |-> least, most |-> most]
Exactly(n) == Between(n, n)
\* what lines[i].length() may yield when i is not an element of the vector:
\* any size_t.  padder keeps the low 32 bits of its difference from 4, as
\* an int, so a length is given here by its own low 32 bits read as an int,
\* MinInt..MaxInt.  The range is divided by what padder makes of a length:
\* each of -11..3 leaves its own pad of 15..1 characters; 4..MaxInt leave
\* none; MinInt..-2147483644 leave none either (4 - length is beyond
\* MaxInt and is a negative int); -2147483643..-12 leave a pad of 16 to
\* MaxInt characters, one outcome whose length is whatever the memory makes
\* of it
GarbageLengths ==
  {Exactly(l) : l \in -11 .. 3}
    \cup {Between(4, MaxInt), Between(MinInt, -2147483644),
          Between(-2147483643, -12)}
\* the characters a std::string of the build holds without asking the
\* allocator for memory
SmallStringCapacity == 15

\* "/tmp/x.txt" exists and can be read and written; "/nodir/y.txt" can be
\* neither opened for reading nor created; "" is the absent path argument
PathP == "/tmp/x.txt"
PathBad == "/nodir/y.txt"
NoPath == ""
PathArgs == {NoPath, PathP, PathBad}
WritablePaths == {PathP}

\* what /tmp/x.txt holds at the start: "a\nb\nc\n", the same without the
\* final newline, or nothing
InitialFiles == { <<"a", NL, "b", NL, "c", NL>>, <<"a", NL, "b">>, <<>> }

(***************************************************************************)
(* Files as newline-delimited records                                      *)
(***************************************************************************)
\* position of the first newline of s, 0 when there is none
FirstNL(s) ==
  IF \E i \in 1..Len(s) : s[i] = NL
  THEN CHOOSE i \in 1..Len(s) : s[i] = NL /\ \A j \in 1..(i-1) : s[j] # NL
  ELSE 0

RECURSIVE ReadLines(_)
\* while (getline(file, line)) lines.push_back(line)
ReadLines(s) ==
  IF s = <<>> THEN <<>>
  ELSE LET i == FirstNL(s) IN
       IF i = 0 THEN <<s>>
       ELSE <<SubSeq(s, 1, i-1)>> \o ReadLines(SubSeq(s, i+1, Len(s)))

RECURSIVE WriteLines(_)
\* for (line : lines) file << line << "\n"
WriteLines(ls) ==
  IF ls = <<>> THEN <<>>
  ELSE Head(ls) \o <<NL>> \o WriteLines(Tail(ls))

\* the number of records a line sequence serialises to
Records(ls) == Len(ReadLines(WriteLines(ls)))

(***************************************************************************)
(* Buffer Store                                                            *)
(***************************************************************************)
\* Buffer(string buff_name) : name(buff_name), is_modified(false)
NewBuffer == [lines |-> <<>>, file_path |-> NoPath, is_modified |-> FALSE]

\* the map after create_buffer(name); the returned pointer is its [name]
create_buffer(bufs, name) ==
  IF name \in DOMAIN bufs THEN bufs ELSE (name :> NewBuffer) @@ bufs

\* bug variant of load_buffer_from_temp: the loaded buffer counts as modified
load_buffer_from_temp_modified(bufs, tmp, name) ==
  IF name \notin DOMAIN tmp THEN bufs
  ELSE [create_buffer(bufs, name) EXCEPT ![name].lines = ReadLines(tmp[name]),
                                         ![name].is_modified = TRUE]

\* the map after load_buffer_from_temp(name)
load_buffer_from_temp(bufs, tmp, name) ==
  IF name \notin DOMAIN tmp THEN bufs
  ELSE [create_buffer(bufs, name) EXCEPT ![name].lines = ReadLines(tmp[name])]

\* bug variant of get_buffer: the snapshot is not looked at
get_buffer_no_load(bufs, tmp, name) == create_buffer(bufs, name)

\* the map after get_buffer(name); the returned pointer is its [name]
get_buffer(bufs, tmp, name) ==
  IF name \in DOMAIN bufs THEN bufs
  ELSE LET loaded == load_buffer_from_temp(bufs, tmp, name) IN
       IF name \in DOMAIN loaded THEN loaded ELSE create_buffer(loaded, name)

\* bug variant of save_buffer_to_temp: a snapshot that cannot be opened is
\* left empty
save_buffer_to_temp_emptying(tmp, writable, name, ls) ==
  IF writable THEN (name :> WriteLines(ls)) @@ tmp ELSE (name :> <<>>) @@ tmp

\* the files of temp_directory after save_buffer_to_temp(buf)
save_buffer_to_temp(tmp, writable, name, ls) ==
  IF writable THEN (name :> WriteLines(ls)) @@ tmp ELSE tmp

(***************************************************************************)
(* Line Editor: the vector operations of each member function              *)
(***************************************************************************)
\* line_num > lines.size() with an int line_num: the int is converted to
\* size_t (64 bits), so a negative one is greater than every size
GtSize(line_num, size) == line_num < 0 \/ line_num > size

\* lines.insert(lines.begin() + i, c)
InsertAt(ls, i, c) == SubSeq(ls, 1, i) \o <<c>> \o SubSeq(ls, i + 1, Len(ls))

\* lines.erase(lines.begin() + i)
EraseAt(ls, i) == SubSeq(ls, 1, i) \o SubSeq(ls, i + 2, Len(ls))

\* replace_line on the resolved buffer's lines: [ok, lines]
replace_line(ls, line_num, content) ==
  IF line_num < 1 \/ GtSize(line_num, Len(ls))
  THEN [ok |-> FALSE, lines |-> ls]
  ELSE [ok |-> TRUE, lines |-> [ls EXCEPT ![line_num] = content]]

\* bug variants of insert_line: the new line goes after line_num; a line
\* number past the end is refused
insert_line_after(ls, line_num, content) ==
  IF line_num < 1
  THEN [ok |-> FALSE, lines |-> ls]
  ELSE IF GtSize(line_num, Len(ls))
       THEN [ok |-> TRUE, lines |-> Append(ls, content)]
       ELSE [ok |-> TRUE, lines |-> InsertAt(ls, line_num, content)]

insert_line_strict(ls, line_num, content) ==
  IF line_num < 1 \/ GtSize(line_num, Len(ls) + 1)
  THEN [ok |-> FALSE, lines |-> ls]
  ELSE [ok |-> TRUE, lines |-> InsertAt(ls, line_num - 1, content)]

\* insert_line on the resolved buffer's lines
insert_line(ls, line_num, content) ==
  IF line_num < 1
  THEN [ok |-> FALSE, lines |-> ls]
  ELSE IF GtSize(line_num, Len(ls))
       THEN [ok |-> TRUE, lines |-> Append(ls, content)]
       ELSE [ok |-> TRUE, lines |-> InsertAt(ls, line_num - 1, content)]

\* delete_line on the resolved buffer's lines
delete_line(ls, line_num) ==
  IF line_num < 1 \/ GtSize(line_num, Len(ls))
  THEN [ok |-> FALSE, lines |-> ls]
  ELSE [ok |-> TRUE, lines |-> EraseAt(ls, line_num - 1)]

\* bug variants of move_line: to_line is not validated against the size;
\* to_line is not adjusted for the removal
move_line_unchecked_to(ls, from_line, to_line) ==
  IF from_line < 1 \/ to_line < 1 \/ GtSize(from_line, Len(ls))
     \/ GtSize(to_line, Len(ls) + 1)
  THEN [ok |-> FALSE, lines |-> ls]
  ELSE LET line_content == ls[from_line]
           erased == EraseAt(ls, from_line - 1)
           to == IF to_line > from_line THEN to_line - 1 ELSE to_line
       IN [ok |-> TRUE, lines |-> InsertAt(erased, to - 1, line_content)]

move_line_no_adjust(ls, from_line, to_line) ==
  IF from_line < 1 \/ to_line < 1
     \/ GtSize(from_line, Len(ls)) \/ GtSize(to_line, Len(ls))
  THEN [ok |-> FALSE, lines |-> ls]
  ELSE [ok |-> TRUE,
        lines |-> InsertAt(EraseAt(ls, from_line - 1), to_line - 1, ls[from_line])]

\* move_line on the resolved buffer's lines
move_line(ls, from_line, to_line) ==
  IF from_line < 1 \/ to_line < 1
     \/ GtSize(from_line, Len(ls)) \/ GtSize(to_line, Len(ls))
  THEN [ok |-> FALSE, lines |-> ls]
  ELSE LET line_content == ls[from_line]
           erased == EraseAt(ls, from_line - 1)
           to == IF to_line > from_line THEN to_line - 1 ELSE to_line
       IN [ok |-> TRUE, lines |-> InsertAt(erased, to - 1, line_content)]

\* bug variant of copy_line: the copy goes after to_line
copy_line_after(ls, from_line, to_line) ==
  IF from_line < 1 \/ to_line < 1 \/ from_line > Len(ls) \/ to_line > Len(ls)
  THEN [ok |-> FALSE, lines |-> ls]
  ELSE [ok |-> TRUE, lines |-> InsertAt(ls, to_line, ls[from_line])]

\* copy_line on the resolved buffer's lines
copy_line(ls, from_line, to_line) ==
  IF from_line < 1 \/ to_line < 1 \/ from_line > Len(ls) \/ to_line > Len(ls)
  THEN [ok |-> FALSE, lines |-> ls]
  ELSE [ok |-> TRUE, lines |-> InsertAt(ls, to_line - 1, ls[from_line])]

\* bug variant of get_line: a line number past the end is clamped to the end
get_line_clamped(ls, line_num) ==
  IF line_num < 1 \/ ls = <<>> THEN <<>>
  ELSE IF line_num > Len(ls) THEN ls[Len(ls)] ELSE ls[line_num]

\* get_line on the resolved buffer's lines: the returned string
get_line(ls, line_num) ==
  IF line_num < 1 \/ line_num > Len(ls) THEN <<>> ELSE ls[line_num]

\* padder(total_length, length): a string of total_length - length pad
\* characters, none when the difference is not positive.  Every character
\* is '0': the string is given by its length, and the length by its bounds
\* (the same, but for a length read past the vector's elements).  A
\* difference beyond MaxInt is a negative int
number_of_chars_to_pad(total_length, length) ==
  IF length < total_length - MaxInt THEN 0
  ELSE IF total_length - length > 0 THEN total_length - length ELSE 0

padder(total_length, length) ==
  Between(number_of_chars_to_pad(total_length, length.most),
          number_of_chars_to_pad(total_length, length.least))

\* lines[at].length(): the length of the element, or whatever the memory
\* holds when `at' is not an element
LengthAt(ls, at, garbage) ==
  IF at + 1 \in 1..Len(ls) THEN Exactly(Len(ls[at + 1])) ELSE garbage

\* one line written to cout: cout << pad << num << ": " << text << endl
\* (pad: how many '0' characters, at least and at most)
Emitted(pad, num, text) == [pad |-> pad, num |-> num, text |-> text]

\* print_buffer on the resolved buffer's lines: the lines written to cout
print_buffer(ls) ==
  [k \in 1..Len(ls) |-> Emitted(padder(4, LengthAt(ls, k - 1, Exactly(0))), k, ls[k])]

\* print_line on the resolved buffer's lines
print_line(ls, line_num) ==
  IF line_num < 1 \/ line_num > Len(ls) THEN <<>>
  ELSE <<Emitted(padder(4, LengthAt(ls, line_num - 1, Exactly(0))), line_num, ls[line_num])>>

\* the clamped bounds of print_lines
ClampStart(start_line) == IF start_line < 1 THEN 1 ELSE start_line
ClampEnd(ls, end_line) == IF end_line > Len(ls) THEN Len(ls) ELSE end_line

\* print_lines on the resolved buffer's lines; the pad of line i is sized
\* by lines[i], the element after the one printed
print_lines(ls, start_line, end_line, garbage) ==
  LET start == ClampStart(start_line)
      end == ClampEnd(ls, end_line)
  IN [k \in 1..(end - start + 1) |->
        LET i == start + k - 1
        IN Emitted(padder(4, LengthAt(ls, i, garbage)), i, ls[i])]

(***************************************************************************)
(* The vector positions each member function uses                          *)
(***************************************************************************)
\* lines[at] on a vector of `size' elements
Elem(at, size) == [at |-> at, size |-> size, insert |-> FALSE]
\* lines.insert(lines.begin() + at, ...) on a vector of `size' elements
Ins(at, size) == [at |-> at, size |-> size, insert |-> TRUE]

replace_line_accesses(ls, line_num) ==
  IF line_num < 1 \/ GtSize(line_num, Len(ls)) THEN {}
  ELSE {Elem(line_num - 1, Len(ls))}

insert_line_accesses(ls, line_num) ==
  IF line_num < 1 \/ GtSize(line_num, Len(ls)) THEN {}
  ELSE {Ins(line_num - 1, Len(ls))}

delete_line_accesses(ls, line_num) ==
  IF line_num < 1 \/ GtSize(line_num, Len(ls)) THEN {}
  ELSE {Elem(line_num - 1, Len(ls))}

move_line_accesses(ls, from_line, to_line) ==
  IF from_line < 1 \/ to_line < 1
     \/ GtSize(from_line, Len(ls)) \/ GtSize(to_line, Len(ls))
  THEN {}
  ELSE LET to == IF to_line > from_line THEN to_line - 1 ELSE to_line
       IN {Elem(from_line - 1, Len(ls)), Ins(to - 1, Len(ls) - 1)}

copy_line_accesses(ls, from_line, to_line) ==
  IF from_line < 1 \/ to_line < 1 \/ from_line > Len(ls) \/ to_line > Len(ls)
  THEN {}
  ELSE {Elem(from_line - 1, Len(ls)), Ins(to_line - 1, Len(ls))}

get_line_accesses(ls, line_num) ==
  IF line_num < 1 \/ line_num > Len(ls) THEN {}
  ELSE {Elem(line_num - 1, Len(ls))}

print_buffer_accesses(ls) == {Elem(k - 1, Len(ls)) : k \in 1..Len(ls)}

print_line_accesses(ls, line_num) ==
  IF line_num < 1 \/ line_num > Len(ls) THEN {}
  ELSE {Elem(line_num - 1, Len(ls))}

print_lines_accesses(ls, start_line, end_line) ==
  UNION {{Elem(i, Len(ls)), Elem(i - 1, Len(ls))} :
           i \in ClampStart(start_line)..ClampEnd(ls, end_line)}

(***************************************************************************)
(* Actions: one call of a public member function of BufferManager          *)
(***************************************************************************)
\* no concurrent invocation is under way
NoProcs == <<>>

\* current_buffer = nullptr
NullPtr == "nullptr"

EmptyMap == [x \in {} |-> x]

Call(op, name, n, m, content, path) ==
  [op |-> op, name |-> name, n |-> n, m |-> m, content |-> content, path |-> path]

\* what the call reports: its return value, get_line's string, and what
\* execute_command returns for it
Reports(call, r, o, c) ==
  /\ last' = call
  /\ ret' = r
  /\ out' = o
  /\ code' = c
  /\ printed' = <<>>

\* a line mutation ends: on success the flag is set and the snapshot written
Commit(got, name, r) ==
  IF r.ok
  THEN /\ buffers' = [got EXCEPT ![name].lines = r.lines,
                                 ![name].is_modified = TRUE]
       /\ temp' = save_buffer_to_temp(temp, temp_writable, name, r.lines)
  ELSE /\ buffers' = got
       /\ temp' = temp

AppendToBuffer(name, content) ==
  LET got == get_buffer(buffers, temp, name)
      r == [ok |-> TRUE, lines |-> Append(got[name].lines, content)]
  IN /\ Records(r.lines) <= MaxLines
     /\ Commit(got, name, r)
     /\ touched' = {}
     /\ Reports(Call("append", name, 0, 0, content, NoPath), TRUE, <<>>, 0)
     /\ UNCHANGED <<files, temp_writable, procs, current_buffer, opened_from>>

ReplaceLine(name, n, content) ==
  LET got == get_buffer(buffers, temp, name)
      r == replace_line(got[name].lines, n, content)
  IN /\ Records(r.lines) <= MaxLines
     /\ Commit(got, name, r)
     /\ touched' = replace_line_accesses(got[name].lines, n)
     /\ Reports(Call("replace", name, n, 0, content, NoPath), r.ok, <<>>,
                IF r.ok THEN 0 ELSE 1)
     /\ UNCHANGED <<files, temp_writable, procs, current_buffer, opened_from>>

InsertLine(name, n, content) ==
  LET got == get_buffer(buffers, temp, name)
      r == insert_line(got[name].lines, n, content)
  IN /\ Records(r.lines) <= MaxLines
     /\ Commit(got, name, r)
     /\ touched' = insert_line_accesses(got[name].lines, n)
     /\ Reports(Call("insert", name, n, 0, content, NoPath), r.ok, <<>>,
                IF r.ok THEN 0 ELSE 1)
     /\ UNCHANGED <<files, temp_writable, procs, current_buffer, opened_from>>

DeleteLine(name, n) ==
  LET got == get_buffer(buffers, temp, name)
      r == delete_line(got[name].lines, n)
  IN /\ Commit(got, name, r)
     /\ touched' = delete_line_accesses(got[name].lines, n)
     /\ Reports(Call("delete", name, n, 0, <<>>, NoPath), r.ok, <<>>,
                IF r.ok THEN 0 ELSE 1)
     /\ UNCHANGED <<files, temp_writable, procs, current_buffer, opened_from>>

MoveLine(name, n, m) ==
  LET got == get_buffer(buffers, temp, name)
      r == move_line(got[name].lines, n, m)
  IN /\ Commit(got, name, r)
     /\ touched' = move_line_accesses(got[name].lines, n, m)
     /\ Reports(Call("move", name, n, m, <<>>, NoPath), r.ok, <<>>,
                IF r.ok THEN 0 ELSE 1)
     /\ UNCHANGED <<files, temp_writable, procs, current_buffer, opened_from>>

CopyLine(name, n, m) ==
  LET got == get_buffer(buffers, temp, name)
      r == copy_line(got[name].lines, n, m)
  IN /\ Records(r.lines) <= MaxLines
     /\ Commit(got, name, r)
     /\ touched' = copy_line_accesses(got[name].lines, n, m)
     /\ Reports(Call("copy", name, n, m, <<>>, NoPath), r.ok, <<>>,
                IF r.ok THEN 0 ELSE 1)
     /\ UNCHANGED <<files, temp_writable, procs, current_buffer, opened_from>>

GetLine(name, n) ==
  LET got == get_buffer(buffers, temp, name)
  IN /\ buffers' = got
     /\ touched' = get_line_accesses(got[name].lines, n)
     /\ Reports(Call("get", name, n, 0, <<>>, NoPath), TRUE,
                get_line(got[name].lines, n), 0)
     /\ UNCHANGED <<temp, files, temp_writable, procs, current_buffer, opened_from>>

\* create_buffer(name) called on its own: [ret] is that a buffer is returned
CreateBuffer(name) ==
  /\ buffers' = create_buffer(buffers, name)
  /\ touched' = {}
  /\ Reports(Call("create_buffer", name, 0, 0, <<>>, NoPath), TRUE, <<>>, 0)
  /\ UNCHANGED <<temp, files, temp_writable, procs, current_buffer, opened_from>>

\* get_buffer(name) called on its own
GetBuffer(name) ==
  /\ buffers' = get_buffer(buffers, temp, name)
  /\ touched' = {}
  /\ Reports(Call("get_buffer", name, 0, 0, <<>>, NoPath), TRUE, <<>>, 0)
  /\ UNCHANGED <<temp, files, temp_writable, procs, current_buffer, opened_from>>

\* select_buffer(name): a resident buffer, or else one that its snapshot
\* makes resident, becomes the current buffer; with neither it returns false
SelectBuffer(name) ==
  LET loaded == IF name \in DOMAIN buffers THEN buffers
                ELSE load_buffer_from_temp(buffers, temp, name)
      found == name \in DOMAIN loaded
  IN /\ buffers' = loaded
     /\ current_buffer' = IF found THEN name ELSE current_buffer
     /\ touched' = {}
     /\ Reports(Call("select", name, 0, 0, <<>>, NoPath), found, <<>>, 0)
     /\ UNCHANGED <<temp, files, temp_writable, procs, opened_from>>

\* save_buffer_to_temp(buf) called on its own with the buffer of that name;
\* the null pointer of a name that is not resident changes nothing
SaveBufferToTemp(name) ==
  /\ temp' = IF name \in DOMAIN buffers
             THEN save_buffer_to_temp(temp, temp_writable, name, buffers[name].lines)
             ELSE temp
  /\ touched' = {}
  /\ Reports(Call("save_buffer_to_temp", name, 0, 0, <<>>, NoPath), TRUE, <<>>, 0)
  /\ UNCHANGED <<buffers, files, temp_writable, procs, current_buffer, opened_from>>

\* load_buffer_from_temp(name) called on its own
LoadBufferFromTemp(name) ==
  /\ buffers' = load_buffer_from_temp(buffers, temp, name)
  /\ touched' = {}
  /\ Reports(Call("load_buffer_from_temp", name, 0, 0, <<>>, NoPath), TRUE, <<>>, 0)
  /\ UNCHANGED <<temp, files, temp_writable, procs, current_buffer, opened_from>>

\* what print_usage writes to cout
print_usage ==
  <<"bff: bff-technical-preview02",
    "",
    "Usage: bff -b [BUFFER NAME] [BUFFER COMMAND|LINE COMMAND] [COMMAND ARGUMENT 1] [COMMAND ARGUMENT 2]",
    "",
    "Usage examples:",
    "",
    "Buffer commands:",
    "bff -b \"test\" open \"/path/to/file.txt\"",
    "bff -b \"test\" print",
    "bff -b \"test\" append \"new content\"",
    "bff -b \"test\" save \"/new/path/file.txt\"",
    "bff -b \"test\" new \"/path/to/newfile.txt\"",
    "",
    "Line commands:",
    "bff -b \"test\" line 10 replace \"return 0;\"",
    "bff -b \"test\" line 5 insert \"// New comment\"",
    "bff -b \"test\" line 3 delete",
    "bff -b \"test\" line 7 move 2",
    "bff -b \"test\" line 4 copy 8",
    "bff -b \"test\" line 6 get",
    "bff -b \"test\" line 2 print",
    "bff -b \"test\" line 1 range 10">>

\* a printing call: it returns nothing, execute_command returns 0
Emits(call, p) ==
  /\ last' = call
  /\ ret' = TRUE
  /\ out' = <<>>
  /\ code' = 0
  /\ printed' = p

\* a printing call that the allocator refuses the memory of a pad:
\* std::bad_alloc leaves the member function and execute_command after the
\* lines p; the catch of run() writes the usage and calls exit(1)
Throws(call, p) ==
  /\ last' = call
  /\ ret' = FALSE
  /\ out' = <<>>
  /\ code' = 1
  /\ printed' = p \o print_usage

PrintBuffer(name) ==
  LET got == get_buffer(buffers, temp, name)
  IN /\ buffers' = got
     /\ touched' = print_buffer_accesses(got[name].lines)
     /\ Emits(Call("print", name, 0, 0, <<>>, NoPath), print_buffer(got[name].lines))
     /\ UNCHANGED <<temp, files, temp_writable, procs, current_buffer, opened_from>>

PrintLine(name, n) ==
  LET got == get_buffer(buffers, temp, name)
  IN /\ buffers' = got
     /\ touched' = print_line_accesses(got[name].lines, n)
     /\ Emits(Call("print_line", name, n, 0, <<>>, NoPath),
              print_line(got[name].lines, n))
     /\ UNCHANGED <<temp, files, temp_writable, procs, current_buffer, opened_from>>

\* print_lines: the pad of the last line of the buffer is sized by what
\* the memory after the vector's elements holds.  A pad of more than
\* SmallStringCapacity characters needs memory from the allocator, which
\* grants it or not (the greater the pad, the less likely); a refused one
\* ends the loop at that line, before anything of it is written.  (A range
\* that ends before the last line reads no such memory.)
PrintLines(name, n, m) ==
  LET got == get_buffer(buffers, temp, name)
      ls == got[name].lines
      call == Call("range", name, n, m, <<>>, NoPath)
  IN /\ buffers' = got
     /\ \E garbage \in IF Len(ls) \in ClampStart(n)..ClampEnd(ls, m)
                         THEN GarbageLengths ELSE {Exactly(0)} :
          LET p == print_lines(ls, n, m, garbage)
              big == {k \in 1..Len(p) : p[k].pad.most > SmallStringCapacity}
          IN \E granted \in IF big = {} THEN {TRUE} ELSE BOOLEAN :
             IF granted
             THEN /\ Emits(call, p)
                  /\ touched' = print_lines_accesses(ls, n, m)
             ELSE LET k == CHOOSE k \in big : \A j \in big : k <= j
                  IN /\ Throws(call, SubSeq(p, 1, k - 1))
                     /\ touched' = print_lines_accesses(ls, n, p[k].num - 1)
                                      \cup {Elem(p[k].num, Len(ls))}
     /\ UNCHANGED <<temp, files, temp_writable, procs, current_buffer, opened_from>>

OpenFile(name, path) ==
  LET made == create_buffer(buffers, name)
  IN IF path \notin DOMAIN files
     THEN /\ buffers' = made
          /\ touched' = {}
          /\ Reports(Call("open", name, 0, 0, <<>>, path), FALSE, <<>>, 1)
          /\ UNCHANGED <<temp, files, temp_writable, procs, current_buffer, opened_from>>
     ELSE LET ls == ReadLines(files[path]) IN
          /\ buffers' = [made EXCEPT ![name] =
                           [lines |-> ls, file_path |-> path, is_modified |-> FALSE]]
          /\ temp' = save_buffer_to_temp(temp, temp_writable, name, ls)
          /\ opened_from' = [opened_from EXCEPT ![name] = path]
          /\ touched' = {}
          /\ Reports(Call("open", name, 0, 0, <<>>, path), TRUE, <<>>, 0)
          /\ UNCHANGED <<files, temp_writable, procs, current_buffer>>

\* bug variant of SavePathOf: the buffer's own path is preferred
SavePathOf_buffer_first(file_path, buffer_path) ==
  IF buffer_path = NoPath THEN file_path ELSE buffer_path

\* string save_path = file_path.empty() ? buf->file_path : file_path
SavePathOf(file_path, buffer_path) ==
  IF file_path = NoPath THEN buffer_path ELSE file_path

SaveFile(name, path) ==
  LET got == get_buffer(buffers, temp, name)
      save_path == SavePathOf(path, got[name].file_path)
  IN IF save_path = NoPath \/ save_path \notin WritablePaths
     THEN /\ buffers' = got
          /\ touched' = {}
          /\ Reports(Call("save", name, 0, 0, <<>>, path), FALSE, <<>>, 1)
          /\ UNCHANGED <<temp, files, temp_writable, procs, current_buffer, opened_from>>
     ELSE /\ files' = (save_path :> WriteLines(got[name].lines)) @@ files
          /\ buffers' = [got EXCEPT ![name].is_modified = FALSE,
                                    ![name].file_path =
                                       IF path # NoPath THEN path ELSE @]
          /\ temp' = save_buffer_to_temp(temp, temp_writable, name, got[name].lines)
          /\ opened_from' = [opened_from EXCEPT ![name] =
                               IF path # NoPath THEN NoPath ELSE @]
          /\ touched' = {}
          /\ Reports(Call("save", name, 0, 0, <<>>, path), TRUE, <<>>, 0)
          /\ UNCHANGED <<temp_writable, procs, current_buffer>>

CreateNewBuffer(name, path) ==
  LET made == create_buffer(buffers, name)
  IN /\ buffers' = [made EXCEPT ![name] =
                      [lines |-> <<>>, file_path |-> path, is_modified |-> FALSE]]
     /\ temp' = save_buffer_to_temp(temp, temp_writable, name, <<>>)
     /\ opened_from' = [opened_from EXCEPT ![name] = NoPath]
     /\ touched' = {}
     /\ Reports(Call("new", name, 0, 0, <<>>, path), TRUE, <<>>, 0)
     /\ UNCHANGED <<files, temp_writable, procs, current_buffer>>

RECURSIVE SaveAll(_, _, _, _)
\* for (pair : buffers) save_buffer_to_temp(pair.second), over `names'
SaveAll(tmp, writable, bufs, names) ==
  IF names = {} THEN tmp
  ELSE LET n == CHOOSE x \in names : TRUE
       IN SaveAll(save_buffer_to_temp(tmp, writable, n, bufs[n].lines),
                  writable, bufs, names \ {n})

\* the process ends through exit(): no destructor runs, the map is gone
Exit ==
  /\ buffers' = EmptyMap
  /\ last' = Call("exit", "", 0, 0, <<>>, NoPath)
  /\ printed' = <<>>
  /\ touched' = {}
  /\ current_buffer' = NullPtr
  /\ UNCHANGED <<temp, files, temp_writable, procs, opened_from, ret, out, code>>

\* ~BufferManager: every resident buffer is saved to its snapshot, then deleted
Destructor ==
  /\ temp' = SaveAll(temp, temp_writable, buffers, DOMAIN buffers)
  /\ buffers' = EmptyMap
  /\ last' = Call("destroy", "", 0, 0, <<>>, NoPath)
  /\ printed' = <<>>
  /\ touched' = {}
  /\ current_buffer' = NullPtr
  /\ UNCHANGED <<files, temp_writable, procs, opened_from, ret, out, code>>

(***************************************************************************)
(* Specification                                                           *)
(***************************************************************************)
Init ==
  /\ buffers = EmptyMap
  /\ temp = EmptyMap
  /\ \E f \in InitialFiles : files = (PathP :> f)
  /\ temp_writable = TRUE
  /\ opened_from = [n \in Names |-> NoPath]
  /\ last = Call("start", "", 0, 0, <<>>, NoPath)
  /\ ret = TRUE
  /\ out = <<>>
  /\ code = 0
  /\ printed = <<>>
  /\ touched = {}
  /\ procs = NoProcs
  /\ current_buffer = NullPtr

\* the Buffer Store: files, snapshots and process ends, with the line
\* operations that change a buffer's length
Next ==
  \/ \E name \in Names, path \in PathArgs \ {NoPath} : OpenFile(name, path)
  \/ \E name \in Names, path \in PathArgs : SaveFile(name, path)
  \/ \E name \in Names, path \in PathArgs : CreateNewBuffer(name, path)
  \/ \E name \in Names, c \in StoreContents : AppendToBuffer(name, c)
  \/ \E name \in Names, n \in StoreLineNums : DeleteLine(name, n)
  \/ \E name \in Names, n \in StoreLineNums : GetLine(name, n)
  \/ \E name \in Names : CreateBuffer(name)
  \/ \E name \in Names : GetBuffer(name)
  \/ \E name \in Names : SelectBuffer(name)
  \/ \E name \in Names : SaveBufferToTemp(name)
  \/ \E name \in Names : LoadBufferFromTemp(name)
  \/ Exit
  \/ Destructor

Spec == Init /\ [][Next]_vars

\* no user file is read or written by the line operations
InitEdit ==
  /\ Init
  /\ files = (PathP :> <<>>)

\* the Line Editor: every line operation with every line number
NextEdit ==
  \/ \E name \in Names : CreateNewBuffer(name, NoPath)
  \/ \E name \in Names, c \in Contents : AppendToBuffer(name, c)
  \/ \E name \in Names, n \in LineNums, c \in Contents : ReplaceLine(name, n, c)
  \/ \E name \in Names, n \in LineNums, c \in Contents : InsertLine(name, n, c)
  \/ \E name \in Names, n \in LineNums : DeleteLine(name, n)
  \/ \E name \in Names, n \in LineNums, m \in LineNums : MoveLine(name, n, m)
  \/ \E name \in Names, n \in LineNums, m \in LineNums : CopyLine(name, n, m)
  \/ \E name \in Names, n \in GetNums : GetLine(name, n)
  \/ Exit

SpecEdit == InitEdit /\ [][NextEdit]_vars

\* Printing: every line operation on contents of different lengths, and
\* the three printing operations
NextPrint ==
  \/ \E name \in Names, c \in PrintContents : AppendToBuffer(name, c)
  \/ \E name \in Names, n \in LineNums, c \in PrintContents : ReplaceLine(name, n, c)
  \/ \E name \in Names, n \in LineNums, c \in PrintContents : InsertLine(name, n, c)
  \/ \E name \in Names, n \in LineNums : DeleteLine(name, n)
  \/ \E name \in Names, n \in LineNums, m \in LineNums : MoveLine(name, n, m)
  \/ \E name \in Names, n \in LineNums, m \in LineNums : CopyLine(name, n, m)
  \/ \E name \in Names, n \in LineNums : GetLine(name, n)
  \/ \E name \in Names : PrintBuffer(name)
  \/ \E name \in Names, n \in LineNums : PrintLine(name, n)
  \/ \E name \in Names, n \in LineNums, m \in LineNums : PrintLines(name, n, m)
  \/ Exit

SpecPrint == InitEdit /\ [][NextPrint]_vars

\* Reading: the four read operations on buffers that are resident or not,
\* opened from a file or not, modified or not
NextRead ==
  \/ \E name \in Names : OpenFile(name, PathP)
  \/ \E name \in Names, path \in {NoPath, PathP} : CreateNewBuffer(name, path)
  \/ \E name \in Names, c \in StoreContents : AppendToBuffer(name, c)
  \/ \E name \in Names, n \in StoreLineNums : DeleteLine(name, n)
  \/ \E name \in Names, n \in StoreLineNums : GetLine(name, n)
  \/ \E name \in Names : PrintBuffer(name)
  \/ \E name \in Names, n \in StoreLineNums : PrintLine(name, n)
  \/ \E name \in Names, n \in StoreLineNums, m \in StoreLineNums : PrintLines(name, n, m)
  \/ Exit

SpecRead == Init /\ [][NextRead]_vars

(***************************************************************************)
(* Command line: CommandParser and BFFEditor::run                          *)
(***************************************************************************)
\* Arguments that are numbers or line contents are given as their
\* characters; command words, buffer names and paths as strings.
\* isspace in the C locale: space, \t, \n, vertical tab (0x0B), \f, \r.
VT == ""
Whitespace == {" ", "\t", "\n", VT, "\f", "\r"}
DigitOf == ("0" :> 0) @@ ("1" :> 1) @@ ("2" :> 2) @@ ("3" :> 3) @@ ("4" :> 4)
           @@ ("5" :> 5) @@ ("6" :> 6) @@ ("7" :> 7) @@ ("8" :> 8) @@ ("9" :> 9)

RECURSIVE SkipSpace(_)
\* stoi skips leading white space
SkipSpace(s) ==
  IF s # <<>> /\ Head(s) \in Whitespace THEN SkipSpace(Tail(s)) ELSE s

RECURSIVE Digits(_, _, _)
\* stoi reads digits up to the first character that is none; a value that
\* does not fit an int (32 bits) makes it throw out_of_range
Digits(s, acc, negative) ==
  IF s = <<>> \/ Head(s) \notin DOMAIN DigitOf
  THEN [thrown |-> FALSE, value |-> acc]
  ELSE LET d == DigitOf[Head(s)] IN
       IF negative
       THEN IF acc < -214748364 \/ (acc = -214748364 /\ d > 8)
            THEN [thrown |-> TRUE, value |-> 0]
            ELSE Digits(Tail(s), acc * 10 - d, TRUE)
       ELSE IF acc > 214748364 \/ (acc = 214748364 /\ d > 7)
            THEN [thrown |-> TRUE, value |-> 0]
            ELSE Digits(Tail(s), acc * 10 + d, FALSE)

\* std::stoi(token): [thrown, value]; it throws invalid_argument when no
\* digit follows the white space and the optional sign
stoi(token) ==
  LET s == SkipSpace(token)
      signed == s # <<>> /\ Head(s) \in {"+", "-"}
      negative == s # <<>> /\ Head(s) = "-"
      body == IF signed THEN Tail(s) ELSE s
  IN IF body = <<>> \/ Head(body) \notin DOMAIN DigitOf
     THEN [thrown |-> TRUE, value |-> 0]
     ELSE Digits(body, 0, negative)

\* ParsedCommand cmd{}: every member zero or empty
EmptyCommand ==
  [thrown |-> FALSE, type |-> "BUFFER_CMD", buffer_name |-> "",
   buffer_cmd |-> "OPEN", buffer_arg |-> "",
   line_cmd |-> "REPLACE", line_number |-> 0, second_line_number |-> 0,
   line_content |-> <<>>]

\* parse ended by throw invalid_argument (its own, or stoi's)
Thrown == [EmptyCommand EXCEPT !.thrown = TRUE]

\* the line command of argv, cmd holding the buffer name; arg(k) is argv[k]
parse_line(argv, cmd) ==
  LET argc == Len(argv)
      arg(k) == argv[k + 1]
      line_operation == arg(5)
      second == [cmd EXCEPT !.second_line_number = stoi(arg(6)).value]
  IN IF line_operation = "replace" /\ argc > 6
       THEN [cmd EXCEPT !.line_cmd = "REPLACE", !.line_content = arg(6)]
     ELSE IF line_operation = "insert" /\ argc > 6
       THEN [cmd EXCEPT !.line_cmd = "INSERT", !.line_content = arg(6)]
     ELSE IF line_operation = "delete"
       THEN [cmd EXCEPT !.line_cmd = "DELETE"]
     ELSE IF line_operation = "move" /\ argc > 6
       THEN IF stoi(arg(6)).thrown THEN Thrown
            ELSE [second EXCEPT !.line_cmd = "MOVE"]
     ELSE IF line_operation = "copy" /\ argc > 6
       THEN IF stoi(arg(6)).thrown THEN Thrown
            ELSE [second EXCEPT !.line_cmd = "COPY"]
     ELSE IF line_operation = "get"
       THEN [cmd EXCEPT !.line_cmd = "GET"]
     ELSE IF line_operation = "print"
       THEN [cmd EXCEPT !.line_cmd = "PRINT_LINE"]
     ELSE IF line_operation = "range" /\ argc > 6
       THEN IF stoi(arg(6)).thrown THEN Thrown
            ELSE [second EXCEPT !.line_cmd = "PRINT_RANGE"]
     ELSE Thrown

\* CommandParser::parse(argc, argv); argv[0] is the program's name
parse(argv) ==
  LET argc == Len(argv)
      arg(k) == argv[k + 1]
      named == [EmptyCommand EXCEPT !.buffer_name = arg(2)]
      command == arg(3)
  IN IF argc < 3 THEN Thrown
     ELSE IF arg(1) # "-b" THEN Thrown
     ELSE IF argc = 3
       THEN [named EXCEPT !.type = "BUFFER_CMD", !.buffer_cmd = "PRINT"]
     ELSE IF command = "open" /\ argc > 4
       THEN [named EXCEPT !.buffer_cmd = "OPEN", !.buffer_arg = arg(4)]
     ELSE IF command = "print"
       THEN [named EXCEPT !.buffer_cmd = "PRINT"]
     ELSE IF command = "append" /\ argc > 4
       THEN [named EXCEPT !.buffer_cmd = "APPEND", !.buffer_arg = arg(4)]
     ELSE IF command = "save"
       THEN [named EXCEPT !.buffer_cmd = "SAVE",
                          !.buffer_arg = IF argc > 4 THEN arg(4) ELSE ""]
     ELSE IF command = "new"
       THEN [named EXCEPT !.buffer_cmd = "NEW",
                          !.buffer_arg = IF argc > 4 THEN arg(4) ELSE ""]
     ELSE IF command = "line" /\ argc > 5
       THEN IF stoi(arg(4)).thrown THEN Thrown
            ELSE parse_line(argv, [named EXCEPT !.type = "LINE_CMD",
                                                !.line_number = stoi(arg(4)).value])
     ELSE Thrown

\* CommandParser::validate_command
validate_command(cmd) ==
  IF cmd.buffer_name = "" THEN FALSE
  ELSE IF cmd.type = "LINE_CMD" /\ cmd.line_number <= 0 THEN FALSE
  ELSE TRUE

\* execute_command(cmd): the member function the switch calls
execute_command(cmd) ==
  LET name == cmd.buffer_name
      n == cmd.line_number
      m == cmd.second_line_number
  IN IF cmd.type = "BUFFER_CMD"
     THEN \/ cmd.buffer_cmd = "OPEN" /\ OpenFile(name, cmd.buffer_arg)
          \/ cmd.buffer_cmd = "APPEND" /\ AppendToBuffer(name, cmd.buffer_arg)
          \/ cmd.buffer_cmd = "SAVE" /\ SaveFile(name, cmd.buffer_arg)
          \/ cmd.buffer_cmd = "NEW" /\ CreateNewBuffer(name, cmd.buffer_arg)
          \/ cmd.buffer_cmd = "PRINT" /\ PrintBuffer(name)
     ELSE \/ cmd.line_cmd = "REPLACE" /\ ReplaceLine(name, n, cmd.line_content)
          \/ cmd.line_cmd = "INSERT" /\ InsertLine(name, n, cmd.line_content)
          \/ cmd.line_cmd = "DELETE" /\ DeleteLine(name, n)
          \/ cmd.line_cmd = "MOVE" /\ MoveLine(name, n, m)
          \/ cmd.line_cmd = "COPY" /\ CopyLine(name, n, m)
          \/ cmd.line_cmd = "GET" /\ GetLine(name, n)
          \/ cmd.line_cmd = "PRINT_LINE" /\ PrintLine(name, n)
          \/ cmd.line_cmd = "PRINT_RANGE" /\ PrintLines(name, n, m)

\* the process ends without having called execute_command
EndsUnexecuted(op, status) ==
  /\ last' = Call(op, "", 0, 0, <<>>, NoPath)
  /\ ret' = FALSE
  /\ out' = <<>>
  /\ code' = status
  /\ printed' = print_usage
  /\ touched' = {}
  /\ UNCHANGED <<buffers, temp, files, temp_writable, procs, current_buffer, opened_from>>

\* run(): parse throws; the handler prints the usage and calls exit(1)
RunMalformed(argv) ==
  /\ buffers = EmptyMap
  /\ parse(argv).thrown
  /\ EndsUnexecuted("malformed", 1)

\* run(): the command is not valid; the usage is printed and run returns,
\* main returns 0 and ~BufferManager finds no buffer to save
RunInvalid(argv) ==
  /\ buffers = EmptyMap
  /\ ~parse(argv).thrown
  /\ ~validate_command(parse(argv))
  /\ EndsUnexecuted("invalid", 0)

\* run(): the command is parsed, found valid, and execute_command calls the
\* member function
RunCommand(argv) ==
  /\ buffers = EmptyMap
  /\ ~parse(argv).thrown
  /\ validate_command(parse(argv))
  /\ execute_command(parse(argv))

\* the line execute_command writes to cout once the member function has
\* returned, as the items streamed into cout; a failure is reported on cerr
Confirmation(call, r, o) ==
  LET name == call.name
      n == call.n
      m == call.m
  IN IF call.op = "get" THEN <<(<<o>>)>>
     ELSE IF ~r THEN <<>>
     ELSE IF call.op = "open" THEN <<(<<"File opened in buffer '", name, "'">>)>>
     ELSE IF call.op = "append"
       THEN <<(<<"Content appended to buffer '", name, "'">>)>>
     ELSE IF call.op = "save" THEN <<(<<"Buffer '", name, "' saved">>)>>
     ELSE IF call.op = "new" THEN <<(<<"New buffer '", name, "' created">>)>>
     ELSE IF call.op = "replace"
       THEN <<(<<"Line ", n, " replaced in buffer '", name, "'">>)>>
     ELSE IF call.op = "insert"
       THEN <<(<<"Line inserted at position ", n, " in buffer '", name, "'">>)>>
     ELSE IF call.op = "delete"
       THEN <<(<<"Line ", n, " deleted from buffer '", name, "'">>)>>
     ELSE IF call.op = "move" THEN <<(<<"Line ", n, " moved to position ", m>>)>>
     ELSE IF call.op = "copy" THEN <<(<<"Line ", n, " copied to position ", m>>)>>
     ELSE <<>>

\* the rest of execute_command and of run(): the member function has
\* returned, its outcome is written to cout, and run() calls exit(result);
\* no destructor runs, the map is gone
ExitRun ==
  /\ buffers # EmptyMap
  /\ buffers' = EmptyMap
  /\ last' = Call("exit", "", 0, 0, <<>>, NoPath)
  /\ printed' = printed \o Confirmation(last, ret, out)
  /\ touched' = {}
  /\ current_buffer' = NullPtr
  /\ UNCHANGED <<temp, files, temp_writable, procs, opened_from, ret, out, code>>

\* between two invocations the snapshot directory becomes unwritable, or
\* writable again
SetTempWritable(writable) ==
  /\ buffers = EmptyMap
  /\ temp_writable # writable
  /\ temp_writable' = writable
  /\ UNCHANGED <<buffers, temp, files, procs, current_buffer, opened_from, last, ret, out, code,
                 printed, touched>>

\* the command lines given: numbers (one with a trailing character, which
\* stoi ignores), tokens that are no number or too great a number, both
\* buffer names, every command word, and too few arguments
NumTokens == {<<"0">>, <<"1">>}
TooGreat == <<"9", "9", "9", "9", "9", "9", "9", "9", "9", "9", "9">>
CommandTails ==
  {<<>>, <<"print">>, <<"open">>, <<"open", PathP>>, <<"open", PathBad>>,
   <<"append">>, <<"append", A>>,
   <<"save">>, <<"save", PathP>>, <<"save", PathBad>>, <<"new">>, <<"new", PathP>>,
   <<"line", <<"1">>>>, <<"line", <<"x">>, "get">>, <<"line", TooGreat, "get">>,
   <<"line", <<"-", "1">>, "get">>, <<"line", <<VT, " ", "+", "1">>, "get">>,
   <<"line", <<"2", "x">>, "delete">>, <<"line", <<"1">>, "move", <<"x">>>>,
   <<"line", <<"1">>, "replace">>, <<"line", <<"1">>, "frob">>, <<"frob">>}
  \cup {<<"line", n, op>> : n \in NumTokens, op \in {"delete", "get", "print"}}
  \cup {<<"line", <<"1">>, "replace", B>>, <<"line", <<"1">>, "insert", A>>}
  \cup {<<"line", <<"1">>, op, <<"1">>>> : op \in {"move", "copy"}}
  \cup {<<"line", <<"1">>, "range", <<"2">>>>, <<"line", <<"2">>, "range", <<"1">>>>}
Argvs ==
  {<<"bff">>, <<"bff", "-b">>, <<"bff", "-x", "t">>}
  \cup {<<"bff", "-b", "">> \o tail : tail \in {<<"print">>, <<"line", <<"1">>, "get">>}}
  \cup {<<"bff", "-b", "t">> \o tail : tail \in CommandTails}

\* process invocations, one after the other, on one snapshot directory
NextCli ==
  \/ \E argv \in Argvs : RunMalformed(argv)
  \/ \E argv \in Argvs : RunInvalid(argv)
  \/ \E argv \in Argvs : RunCommand(argv)
  \/ ExitRun
  \/ \E writable \in BOOLEAN : SetTempWritable(writable)

\* /tmp/x.txt holds "a\nb"
InitCli ==
  /\ Init
  /\ files = (PathP :> <<"a", NL, "b">>)

SpecCli == InitCli /\ [][NextCli]_vars

(***************************************************************************)
(* Concurrent invocations on one snapshot file                             *)
(***************************************************************************)
Procs == {1, 2}
RaceName == "t"
\* the mutation each invocation makes: append "c", delete line 1, insert
\* "c" at line 1
RaceOps == {"append", "delete", "insert"}

\* the lines after the invocation's mutation: [ok, lines]
RaceMutate(op, ls) ==
  IF op = "append" THEN [ok |-> TRUE, lines |-> Append(ls, <<"c">>)]
  ELSE IF op = "delete" THEN delete_line(ls, 1)
  ELSE insert_line(ls, 1, <<"c">>)

\* bug variant of Truncated: the file is opened without truncation
Truncated_kept(file) == file

\* ofstream temp_file(temp_file_path): what an open for writing leaves of
\* the file
Truncated(file) == <<>>

\* the file after `bytes' are written at the start of it: what it holds
\* beyond them stays
WriteAt(file, bytes) ==
  bytes \o SubSeq(file, Len(bytes) + 1, Len(file))

\* how many invocations have closed their snapshot
Closed == Cardinality({q \in Procs : procs[q].pc = "closed"})

\* every invocation has ended
AllEnded == \A q \in Procs : procs[q].pc \in {"closed", "failed"}

\* the invocations that are between the open and the write of their
\* snapshot
Writing == {q \in Procs : procs[q].pc = "opened"}

\* get_buffer in a new process, load_buffer_from_temp: the snapshot exists
\* and is opened for reading; nothing is read yet
RaceOpenRead(p, op) ==
  /\ procs[p].pc = "start"
  /\ RaceName \in DOMAIN temp
  /\ procs' = [procs EXCEPT ![p].pc = "reading",
                            ![p].op = op,
                            ![p].got = <<>>,
                            ![p].inside = Writing]
  /\ UNCHANGED <<buffers, temp, files, temp_writable, opened_from, last, ret,
                 out, code, printed, touched, current_buffer>>

\* load_buffer_from_temp, getline: the stream's buffer is empty and is
\* filled by one read, which returns what the file holds now from the
\* stream's offset on (the files are shorter than the stream's buffer)
RaceRead(p) ==
  /\ procs[p].pc = "reading"
  /\ Len(temp[RaceName]) > Len(procs[p].got)
  /\ procs' = [procs EXCEPT
                 ![p].got = @ \o SubSeq(temp[RaceName], Len(@) + 1, Len(temp[RaceName])),
                 ![p].inside = @ \cap Writing]
  /\ UNCHANGED <<buffers, temp, files, temp_writable, opened_from, last, ret,
                 out, code, printed, touched, current_buffer>>

\* load_buffer_from_temp, getline: the read returns nothing, the loop ends
\* with the lines of what was read; then the mutation is made in memory.  A
\* mutation that is refused ends the invocation (exit status 1): it never
\* opens the snapshot for writing
RaceEndOfFile(p) ==
  LET loaded == ReadLines(procs[p].got)
      r == RaceMutate(procs[p].op, loaded)
  IN /\ procs[p].pc = "reading"
     /\ Len(temp[RaceName]) <= Len(procs[p].got)
     /\ procs' = [procs EXCEPT ![p].pc = IF r.ok THEN "loaded" ELSE "failed",
                               ![p].loaded = loaded,
                               ![p].inside = @ \cap Writing,
                               ![p].lines = r.lines]
     /\ UNCHANGED <<buffers, temp, files, temp_writable, opened_from, last, ret,
                    out, code, printed, touched, current_buffer>>

\* save_buffer_to_temp: the ofstream is opened, the file is truncated; the
\* lines then go to the stream's buffer
RaceOpen(p) ==
  /\ procs[p].pc = "loaded"
  /\ temp' = (RaceName :> Truncated(temp[RaceName])) @@ temp
  /\ procs' = [procs EXCEPT ![p].pc = "opened",
                            ![p].before = temp[RaceName]]
  /\ UNCHANGED <<buffers, files, temp_writable, opened_from, last, ret,
                 out, code, printed, touched, current_buffer>>

\* save_buffer_to_temp, temp_file.close(): the stream's buffer, every line
\* of the buffer, reaches the file in one write at the stream's own offset,
\* which is 0
RaceClose(p) ==
  /\ procs[p].pc = "opened"
  /\ temp' = [temp EXCEPT ![RaceName] = WriteAt(@, WriteLines(procs[p].lines))]
  /\ procs' = [procs EXCEPT ![p].pc = "closed", ![p].rank = Closed + 1]
  /\ UNCHANGED <<buffers, files, temp_writable, opened_from, last, ret,
                 out, code, printed, touched, current_buffer>>

\* every invocation is about to start; the snapshot holds one or two lines
InitRace ==
  /\ buffers = EmptyMap
  /\ \E ls \in {<<A>>, <<A, B>>} : temp = (RaceName :> WriteLines(ls))
  /\ files = (PathP :> <<>>)
  /\ temp_writable = TRUE
  /\ opened_from = [n \in Names |-> NoPath]
  /\ last = Call("start", "", 0, 0, <<>>, NoPath)
  /\ ret = TRUE
  /\ out = <<>>
  /\ code = 0
  /\ printed = <<>>
  /\ touched = {}
  /\ current_buffer = NullPtr
  /\ procs = [p \in Procs |->
                [pc |-> "start", op |-> "", got |-> <<>>, loaded |-> <<>>,
                 lines |-> <<>>, inside |-> {}, before |-> <<>>, rank |-> 0]]

NextRace ==
  \/ \E p \in Procs, op \in RaceOps : RaceOpenRead(p, op)
  \/ \E p \in Procs : RaceRead(p)
  \/ \E p \in Procs : RaceEndOfFile(p)
  \/ \E p \in Procs : RaceOpen(p)
  \/ \E p \in Procs : RaceClose(p)

SpecRace == InitRace /\ [][NextRace]_vars

(***************************************************************************)
(* What the claims speak of                                                *)
(***************************************************************************)
\* the lines a read of name sees: those of the resident buffer, else the
\* records of its snapshot, else none
LinesOf(name) ==
  IF name \in DOMAIN buffers THEN buffers[name].lines
  ELSE IF name \in DOMAIN temp THEN ReadLines(temp[name])
  ELSE <<>>

\* the is_modified flag of name: a buffer that is not resident has none set
ModifiedOf(name) ==
  IF name \in DOMAIN buffers THEN buffers[name].is_modified ELSE FALSE

\* the file path of name's buffer: a buffer that is not resident has none
FilePathOf(name) ==
  IF name \in DOMAIN buffers THEN buffers[name].file_path ELSE NoPath

\* s without its i-th element
Without(s, i) == [j \in 1..(Len(s) - 1) |-> IF j < i THEN s[j] ELSE s[j + 1]]

SameSeq(s, t) == Len(s) = Len(t) /\ \A j \in 1..Len(s) : s[j] = t[j]

Mutations == {"append", "replace", "insert", "delete", "move", "copy", "open", "new"}

Max(x, y) == IF x > y THEN x ELSE y
Min(x, y) == IF x < y THEN x ELSE y

C == <<"c">>
AB == <<"a", NL, "b">>

(***************************************************************************)
(* C1  Persistence round trip                                              *)
(***************************************************************************)
\* C1: after every successful mutating operation on a name, resolving the
\* name in a fresh Buffer Store (no buffer resident, the snapshot files as
\* they are) yields exactly the lines the buffer has after the mutation.
C1_RoundTrip ==
  (last.op \in Mutations /\ ret) =>
     get_buffer(EmptyMap, temp, last.name)[last.name].lines
       = buffers[last.name].lines

(***************************************************************************)
(* C2  A failed open leaves the buffer untouched                           *)
(***************************************************************************)
\* C2: when open_file returns failure, the lines a later read of the name
\* sees are those it would have seen without the call, also when the name
\* was not resident and its snapshot holds lines.
C2_FailedOpenUntouched ==
  [][\A name \in Names :
       (last'.op = "open" /\ last'.name = name /\ ~ret')
          => LinesOf(name)' = LinesOf(name)]_vars

(***************************************************************************)
(* C3  An invalid line address fails and changes nothing                   *)
(***************************************************************************)
C3_Invalid(call, len) ==
  \/ call.op \in {"replace", "delete"} /\ (call.n < 1 \/ call.n > len)
  \/ call.op \in {"move", "copy"}
       /\ (call.n < 1 \/ call.n > len \/ call.m < 1 \/ call.m > len)
  \/ call.op = "insert" /\ call.n < 1

\* C3: replace and delete with n outside [1, len], move and copy with from
\* or to outside [1, len], and insert with n < 1 return failure and leave
\* the buffer's lines, its is_modified flag and the snapshot files as they
\* were.
C3_InvalidAddressChangesNothing ==
  [][\A name \in Names :
       (last'.name = name /\ C3_Invalid(last', Len(LinesOf(name))))
          => /\ ret' = FALSE
             /\ LinesOf(name)' = LinesOf(name)
             /\ ModifiedOf(name)' = ModifiedOf(name)
             /\ temp' = temp]_vars

\* a move to one past the end of a modified 2-line buffer was refused
C3_Witness ==
  /\ last.op = "move" /\ last.n = 1 /\ last.m = 3 /\ ~ret
  /\ "t" \in DOMAIN buffers
  /\ Len(buffers["t"].lines) = 2
  /\ buffers["t"].is_modified
  /\ "t" \in DOMAIN temp

(***************************************************************************)
(* C4  The snapshot reflects the last successful mutation                  *)
(***************************************************************************)
\* C4: a snapshot file is written only by a successful mutation or creation
\* of its buffer, and its records are then exactly the buffer's lines; no
\* other step changes it.  So in every state a snapshot, when present,
\* holds the lines as of the last successful mutation or creation.
C4_SnapshotReflectsLastMutation ==
  [][\A name \in Names :
       IF last'.name = name /\ last'.op \in (Mutations \cup {"save"}) /\ ret'
       THEN /\ name \in DOMAIN temp'
            /\ ReadLines(temp'[name]) = buffers'[name].lines
       ELSE /\ (name \in DOMAIN temp') = (name \in DOMAIN temp)
            /\ name \in DOMAIN temp => temp'[name] = temp[name]]_vars

(***************************************************************************)
(* C5  move                                                                *)
(***************************************************************************)
\* C5: move with from and to in [1, len] succeeds, keeps the length and
\* the order of the other lines, puts the moved line immediately before
\* the line that was at position to when to > from, at position to when
\* to < from, and changes nothing when to = from.
C5_MovePlacesLine ==
  [][\A name \in Names :
       LET old == LinesOf(name)
           new == LinesOf(name)'
           from == last'.n
           to == last'.m
       IN (last'.op = "move" /\ last'.name = name
             /\ from \in 1..Len(old) /\ to \in 1..Len(old))
          => /\ ret'
             /\ Len(new) = Len(old)
             /\ to > from => /\ new[to - 1] = old[from]
                             /\ new[to] = old[to]
                             /\ SameSeq(Without(new, to - 1), Without(old, from))
             /\ to < from => /\ new[to] = old[from]
                             /\ SameSeq(Without(new, to), Without(old, from))
             /\ to = from => new = old]_vars

\* line 1 of [a, b, c] was moved to 3: it now stands before c
C5_Witness ==
  /\ last.op = "move" /\ last.n = 1 /\ last.m = 3 /\ ret
  /\ "t" \in DOMAIN buffers
  /\ buffers["t"].lines = <<B, A, C>>

(***************************************************************************)
(* C6  Scenario on buffer "t"                                              *)
(***************************************************************************)
\* the steps of the scenario, each from the lines the step before leaves:
\* new "t" with no path; line 1 insert "a"; line 1 insert "b"; line 2
\* replace "c"; line 1 move 2, which leaves `moved'; line 1 get, which
\* returns `first'
C6_Scenario(moved, first) ==
  LET old == LinesOf("t")
      new == LinesOf("t")'
      call == last'
  IN call.name = "t" =>
       /\ (call.op = "new" /\ call.path = NoPath)
            => (ret' /\ new = <<>>)
       /\ (call.op = "insert" /\ call.n = 1 /\ call.content = A /\ old = <<>>)
            => (ret' /\ Len(new) = 1 /\ new = <<A>>)
       /\ (call.op = "insert" /\ call.n = 1 /\ call.content = B /\ old = <<A>>)
            => (ret' /\ new = <<B, A>>)
       /\ (call.op = "replace" /\ call.n = 2 /\ call.content = C /\ old = <<B, A>>)
            => (ret' /\ new = <<B, C>>)
       /\ (call.op = "move" /\ call.n = 1 /\ call.m = 2 /\ old = <<B, C>>)
            => (ret' /\ new = moved)
       /\ (call.op = "get" /\ call.n = 1 /\ old = moved)
            => (out' = first /\ new = moved)

\* C6 as written: line 1 move 2 on ["b","c"] gives ["c","b"], and get line 1
\* then returns "c".
C6_ScenarioAsWritten == [][C6_Scenario(<<C, B>>, C)]_vars

\* C6 amended: new "t", line 1 insert "a" gives length 1, line 1 insert "b"
\* gives ["b","a"], line 2 replace "c" gives ["b","c"], line 1 move 2 leaves
\* ["b","c"] (the moved line is placed before the line that was at position
\* 2, where it already stood), and get line 1 then returns "b".
C6_ScenarioAmended == [][C6_Scenario(<<B, C>>, B)]_vars

\* the last step of the scenario: get line 1 of ["b","c"] returned "b"
C6_Witness ==
  /\ last.op = "get" /\ last.n = 1 /\ last.name = "t"
  /\ "t" \in DOMAIN buffers
  /\ buffers["t"].lines = <<B, C>>
  /\ buffers["t"].file_path = NoPath
  /\ out = B

(***************************************************************************)
(* C7  save with no path writes back to the opened file                    *)
(***************************************************************************)
\* C7: once open_file(name, P) has succeeded, whatever line mutations and
\* process ends follow, save_file(name) with no path succeeds and P then
\* holds exactly the buffer's lines, each followed by a newline.
C7_SaveWritesBackToOpened ==
  \A name \in Names :
    (last.op = "save" /\ last.name = name /\ last.path = NoPath
       /\ opened_from[name] \in WritablePaths)
      => /\ ret
         /\ files[opened_from[name]] = WriteLines(buffers[name].lines)

(***************************************************************************)
(* C8  insert                                                              *)
(***************************************************************************)
\* C8: insert fails exactly when n < 1; for 1 <= n <= len the new line is
\* at position n and the former lines n..len follow it in order; for
\* n > len the result is the lines with content appended.
C8_InsertShiftsOrAppends ==
  [][\A name \in Names :
       LET old == LinesOf(name)
           new == LinesOf(name)'
           n == last'.n
       IN (last'.op = "insert" /\ last'.name = name)
          => /\ n < 1 => (~ret' /\ new = old)
             /\ n >= 1 => (ret' /\ Len(new) = Len(old) + 1)
             /\ (n >= 1 /\ n <= Len(old))
                  => /\ new[n] = last'.content
                     /\ \A j \in 1..(n - 1) : new[j] = old[j]
                     /\ \A j \in n..Len(old) : new[j + 1] = old[j]
             /\ n > Len(old) => new = Append(old, last'.content)]_vars

\* insert at line 4 of a 2-line buffer appended the content as line 3
C8_Witness ==
  /\ last.op = "insert" /\ last.n = 4 /\ ret
  /\ "t" \in DOMAIN buffers
  /\ Len(buffers["t"].lines) = 3
  /\ buffers["t"].lines[3] = last.content

(***************************************************************************)
(* C9  copy                                                                *)
(***************************************************************************)
\* C9: copy with from and to in [1, len] succeeds, makes the buffer one
\* line longer, puts the content of line from at position to, keeps every
\* former line in order around it, and the line copied from still holds
\* its content.
C9_CopyInsertsDuplicate ==
  [][\A name \in Names :
       LET old == LinesOf(name)
           new == LinesOf(name)'
           from == last'.n
           to == last'.m
       IN (last'.op = "copy" /\ last'.name = name
             /\ from \in 1..Len(old) /\ to \in 1..Len(old))
          => /\ ret'
             /\ Len(new) = Len(old) + 1
             /\ new[to] = old[from]
             /\ SameSeq(Without(new, to), old)
             /\ new[IF to <= from THEN from + 1 ELSE from] = old[from]]_vars

\* line 2 of [a, b] was copied to position 1
C9_Witness ==
  /\ last.op = "copy" /\ last.n = 2 /\ last.m = 1 /\ ret
  /\ "t" \in DOMAIN buffers
  /\ buffers["t"].lines = <<B, A, B>>

(***************************************************************************)
(* C10  get                                                                *)
(***************************************************************************)
\* C10: get returns the content of line n when 1 <= n <= len and the empty
\* string for every other n, and the command ends with code 0.
C10_GetLineOrEmpty ==
  [][\A name \in Names :
       LET old == LinesOf(name)
           n == last'.n
       IN (last'.op = "get" /\ last'.name = name)
          => /\ out' = IF n \in 1..Len(old) THEN old[n] ELSE <<>>
             /\ code' = 0]_vars

\* line 5 of a 2-line buffer was asked for and the empty string returned
C10_Witness ==
  /\ last.op = "get" /\ last.n = 5
  /\ "t" \in DOMAIN buffers
  /\ Len(buffers["t"].lines) = 2
  /\ out = <<>>
  /\ code = 0

\* C11: print_range emits exactly the lines max(start,1) .. min(end,len) in
\* increasing order, each with its own number and content, and nothing when
\* the start is past the clamped end; it is never an error
C11_PrintRangeEmitsClampedRange ==
  [][\A name \in Names :
       (last'.op = "range" /\ last'.name = name) =>
         /\ code' = 0
         /\ Len(printed') =
              IF Min(last'.m, Len(LinesOf(name)')) >= Max(last'.n, 1)
              THEN Min(last'.m, Len(LinesOf(name)')) - Max(last'.n, 1) + 1
              ELSE 0
         /\ \A k \in 1..Len(printed') :
              /\ printed'[k].num = Max(last'.n, 1) + k - 1
              /\ printed'[k].text = LinesOf(name)'[Max(last'.n, 1) + k - 1]]_vars

\* C12: resolving a name never fails and yields the one buffer of that name:
\* the resident one as it is; else one whose lines are the snapshot's records;
\* else, with no snapshot, an empty one with no file path.  No other name's
\* buffer appears or changes.  (get is the call that only resolves.)
C12_ResolveOrCreate ==
  [][\A name \in Names :
       (last'.op = "get" /\ last'.name = name) =>
         /\ DOMAIN buffers' = DOMAIN buffers \cup {name}
         /\ \A other \in DOMAIN buffers : buffers'[other] = buffers[other]
         /\ (name \notin DOMAIN buffers /\ name \in DOMAIN temp) =>
               buffers'[name].lines = ReadLines(temp[name])
         /\ (name \notin DOMAIN buffers /\ name \notin DOMAIN temp) =>
               /\ buffers'[name].lines = <<>>
               /\ buffers'[name].file_path = NoPath]_vars

\* a get has made resident a buffer that only a snapshot can have filled:
\* it has lines, but no file path and no modification
C12_Witness ==
  /\ last.op = "get"
  /\ last.name \in DOMAIN buffers
  /\ buffers[last.name].lines # <<>>
  /\ buffers[last.name].file_path = NoPath
  /\ ~buffers[last.name].is_modified

\* C13: a save fails exactly when the given path and the buffer's file path
\* are both empty or the target cannot be opened for writing, and then lines,
\* file path, is_modified, the snapshots and the files are as before; a save
\* that succeeds writes every line followed by a newline to the target,
\* clears is_modified, takes the given path as file path when one was given,
\* and writes the snapshot
C13_SaveContract ==
  [][\A name \in Names :
       (last'.op = "save" /\ last'.name = name) =>
         LET target == IF last'.path # NoPath THEN last'.path ELSE FilePathOf(name)
         IN /\ ret' = ~(target = NoPath \/ target \notin WritablePaths)
            /\ LinesOf(name)' = LinesOf(name)
            /\ ~ret' =>
                 /\ FilePathOf(name)' = FilePathOf(name)
                 /\ ModifiedOf(name)' = ModifiedOf(name)
                 /\ temp' = temp
                 /\ files' = files
            /\ ret' =>
                 /\ files'[target] = WriteLines(LinesOf(name))
                 /\ ~ModifiedOf(name)'
                 /\ FilePathOf(name)' = target
                 /\ temp_writable => (name \in DOMAIN temp'
                                       /\ temp'[name] = WriteLines(LinesOf(name)))]_vars

\* a save with no path argument has written a modified buffer's lines back
\* to the buffer's own file path
C13_Witness ==
  /\ last.op = "save"
  /\ last.path = NoPath
  /\ ret
  /\ last.name \in DOMAIN buffers
  /\ buffers[last.name].file_path = PathP
  /\ buffers[last.name].lines # <<>>
  /\ files[PathP] = WriteLines(buffers[last.name].lines)

\* C14: an invocation ends with exit code 0 only when its operation
\* succeeded and with 1 when it failed; one whose command is malformed or not
\* valid prints the usage, ends with exit code 1 and touches no buffer,
\* snapshot or file
C14_ExitCodes ==
  [][/\ last'.op = "exit" => (code' = IF ret' THEN 0 ELSE 1)
     /\ last'.op \in {"malformed", "invalid"} =>
          /\ code' = 1
          /\ printed' = print_usage
          /\ UNCHANGED <<buffers, temp, files>>]_vars

\* C15: in every reachable state no line of a resident buffer contains a
\* newline, whatever content append, insert and replace were given and
\* whatever file or snapshot was loaded
C15_NoEmbeddedNewline ==
  \A name \in DOMAIN buffers :
    \A i \in 1..Len(buffers[name].lines) :
      \A j \in 1..Len(buffers[name].lines[i]) : buffers[name].lines[i][j] # NL

\* C16: when two invocations have mutated the same buffer concurrently and
\* both have finished, the snapshot holds exactly the lines of the one that
\* closed its snapshot last, whatever the interleaving
C16_LastWriterWins ==
  \A p \in Procs :
    (procs # NoProcs /\ AllEnded /\ procs[p].pc = "closed" /\ procs[p].rank = Closed)
      => temp[RaceName] = WriteLines(procs[p].lines)

\* C17: the snapshot write is not atomic: an invocation that loads the
\* buffer while the other one is writing its snapshot, between that one's
\* open and its write, obtains what the open has left of the file, no line
\* at all: a partial write, neither the lines the snapshot held before that
\* write nor the lines it holds after it
C17_ReaderSeesPartialWrite ==
  \A p \in Procs, q \in Procs :
    (/\ procs # NoProcs
     /\ procs[p].pc \in {"loaded", "failed", "opened", "closed"}
     /\ q \in procs[p].inside)
      => procs[p].loaded = <<>>

\* an invocation has loaded the buffer while the other one was between the
\* open and the write of its snapshot; the snapshot held lines before that
\* write and holds lines after it, and the lines loaded are neither
C17_Witness ==
  /\ procs # NoProcs
  /\ \E p \in Procs, q \in Procs :
       /\ p # q
       /\ q \in procs[p].inside
       /\ procs[p].pc \in {"loaded", "failed", "opened", "closed"}
       /\ procs[q].pc = "closed"
       /\ ReadLines(procs[q].before) # <<>>
       /\ procs[q].lines # <<>>
       /\ procs[p].loaded # ReadLines(procs[q].before)
       /\ procs[p].loaded # procs[q].lines

\* C18: when the snapshot cannot be opened for writing, saving it is a
\* silent no-op: the mutating operation is refused or accepted as ever, an
\* accepted one changes the lines in memory and ends with exit code 0, and
\* the snapshots are left as they were
C18_UnwritableSnapshotIsSilent ==
  [][\A name \in Names :
       (~temp_writable /\ last'.name = name
          /\ last'.op \in {"append", "replace", "insert", "delete", "move", "copy",
                           "open", "new", "save"}) =>
         /\ temp' = temp
         /\ code' = IF ret' THEN 0 ELSE 1
         /\ last'.op = "append" =>
              ret' /\ LinesOf(name)' = Append(LinesOf(name), last'.content)
         /\ last'.op = "replace" =>
              /\ ret' = (last'.n \in 1..Len(LinesOf(name)))
              /\ ret' => LinesOf(name)' = [LinesOf(name) EXCEPT ![last'.n] = last'.content]
         /\ last'.op = "delete" =>
              /\ ret' = (last'.n \in 1..Len(LinesOf(name)))
              /\ ret' => SameSeq(LinesOf(name)', Without(LinesOf(name), last'.n))
         /\ last'.op = "insert" =>
              /\ ret' = (last'.n >= 1)
              /\ ret' => Len(LinesOf(name)') = Len(LinesOf(name)) + 1
         /\ last'.op \in {"move", "copy"} =>
              ret' = (last'.n \in 1..Len(LinesOf(name)) /\ last'.m \in 1..Len(LinesOf(name)))
         /\ last'.op = "copy" /\ ret' => Len(LinesOf(name)') = Len(LinesOf(name)) + 1
         /\ last'.op = "new" => ret' /\ LinesOf(name)' = <<>>
         /\ last'.op = "open" =>
              /\ ret' = (last'.path \in DOMAIN files)
              /\ ret' => LinesOf(name)' = ReadLines(files[last'.path])]_vars

\* with the snapshot unwritable an append was accepted: the buffer has the
\* new line, the snapshot still holds the lines without it
C18_Witness ==
  /\ ~temp_writable
  /\ last.op = "append"
  /\ ret
  /\ code = 0
  /\ last.name \in DOMAIN buffers
  /\ last.name \in DOMAIN temp
  /\ temp[last.name] # <<>>
  /\ buffers[last.name].lines = Append(ReadLines(temp[last.name]), last.content)

\* C19: when an invocation ends, on whatever path, every buffer resident in
\* it has its snapshot, and the snapshot holds the buffer's lines
C19_FlushedAtExit ==
  [][last'.op \in {"exit", "malformed", "invalid"} =>
       \A name \in DOMAIN buffers :
         /\ name \in DOMAIN temp'
         /\ temp'[name] = WriteLines(buffers[name].lines)]_vars

\* C20: every element of a buffer's vector an operation reads, writes or
\* erases is at an index in [0, len-1], and every insertion is at a position
\* in [0, len]
C20_AccessesInBounds ==
  \A a \in touched :
    IF a.insert THEN a.at \in 0..a.size ELSE a.at \in 0..(a.size - 1)

\* C21: get, print_line, print_lines and print_buffer leave the lines, the
\* file path and is_modified of every buffer as they were, and every
\* snapshot file too; all they do to the store is make the named buffer
\* resident
C21_ReadsChangeNothing ==
  [][\A name \in Names :
       (last'.op \in {"get", "print", "print_line", "range"} /\ last'.name = name) =>
         /\ \A other \in Names :
              /\ LinesOf(other)' = LinesOf(other)
              /\ FilePathOf(other)' = FilePathOf(other)
              /\ ModifiedOf(other)' = ModifiedOf(other)
         /\ temp' = temp
         /\ DOMAIN buffers' = DOMAIN buffers \cup {name}
         /\ \A other \in DOMAIN buffers : buffers'[other] = buffers[other]]_vars

\* a print has made resident a buffer that only a snapshot can have filled
\* (it has lines, no file path and no modification) and has written its lines
C21_Witness ==
  /\ last.op = "print"
  /\ printed # <<>>
  /\ last.name \in DOMAIN buffers
  /\ buffers[last.name].lines # <<>>
  /\ buffers[last.name].file_path = NoPath
  /\ ~buffers[last.name].is_modified
  /\ last.name \in DOMAIN temp
  /\ temp[last.name] = WriteLines(buffers[last.name].lines)

====
